---- MODULE Spec2Model ----
(***************************************************************************)
(* Halsey measured-move engine of src/mes_hft_halsey/mes_intraday_halsey.py *)
(* (find_swings, _build_swing_table, _volume_confirmed,                     *)
(* detect_halsey_signals).                                                  *)
(*                                                                          *)
(* Number representation.  Prices are integers in cents (0.01 point).       *)
(* Unrounded levels (entry, stop, targets) are integers in 1/1000 cent, so  *)
(* that 0.05 x impulse and 1.236 x impulse are exact.  Ratios (retrace,     *)
(* risk/reward, volume means) are compared by cross-multiplication, i.e. in *)
(* exact arithmetic; the binary floating point of the source can differ     *)
(* from it only when a quotient sits within one ulp of a threshold.         *)
(* vix_level and min_rr are integers in hundredths.  Bars are numbered      *)
(* 1..Len(df) (Python position k-1) and are MinutesPerBar apart.            *)
(***************************************************************************)
EXTENDS Integers, Sequences, FiniteSets, TLC

\* ---------------------------------------------------------------- bounds
MaxBars == 5

\* ------------------------------------------------------- input alphabets
\* Candle shapes (low, high in cents; volume).  100.00 / 110.00 / 104.00 are
\* the levels of the documented bullish scenario; 106.18 is the 61.8% bearish
\* retrace of 110 -> 100; 100.01 / 100.02 give a two-cent impulse.
CandleSet ==
  { [low |-> 10000, high |-> 10000, volume |-> 0],
    [low |-> 10001, high |-> 10002, volume |-> 0],
    [low |-> 11000, high |-> 11000, volume |-> 10],
    [low |-> 10400, high |-> 10618, volume |-> 0] }

Orders == {1, 2}
VixLevels == {1500, 1600, 1800, 1900}
MinRRs == {200, 1000}

\* UTC bar number from which America/Chicago is on standard time (UTC-6);
\* earlier bars are on daylight time (UTC-5).  0: the whole series is CST.
DstEnds == {0}

SeqsUpTo(S, n) == UNION { [1..k -> S] : k \in 0..n }

VARIABLES df, order, have_scipy, vix_level, min_rr,
          require_volume_confirmation, dst_end,
          pc, hi_idx, lo_idx, swings, i, signals,
          call, result,
          buckets, candles, final_candles, table, stream, fpc

vars == <<df, order, have_scipy, vix_level, min_rr,
          require_volume_confirmation, dst_end,
          pc, hi_idx, lo_idx, swings, i, signals,
          call, result,
          buckets, candles, final_candles, table, stream, fpc>>

\* A direct call of one function of the engine (its arguments) and what it
\* returned; unused while detect_halsey_signals runs on df.
direct == <<call, result>>
NoCall == [fn |-> "none"]
NoResult == [fn |-> "none"]

\* The live 15-minute aggregation: CandleAggregator.buckets, the candles the
\* flush thread and the final flush hold between drain and flush_candles, the
\* rows of mkt_futures_mes_15m, the records the stream has delivered so far and
\* the position of the flush thread.  Dictionaries keyed by bucket start are
\* functions; the empty dictionary is << >>.
live == <<buckets, candles, final_candles, table, stream, fpc>>

LiveIdle ==
  /\ buckets = << >>
  /\ candles = << >>
  /\ final_candles = << >>
  /\ table = << >>
  /\ stream = << >>
  /\ fpc = "idle"

inputs == <<df, order, have_scipy, vix_level, min_rr,
            require_volume_confirmation, dst_end>>

\* ------------------------------------------------------------ arithmetic
Max2(a, b) == IF a >= b THEN a ELSE b
Min2(a, b) == IF a <= b THEN a ELSE b

\* round(num/den) to the nearest integer, ties to even (Python round());
\* den > 0, num of either sign.
RoundDiv(num, den) ==
  LET q == num \div den
      r == num % den
  IN  IF 2 * r < den THEN q
      ELSE IF 2 * r > den THEN q + 1
      ELSE IF q % 2 = 0 THEN q ELSE q + 1

\* _round2 of a level held in 1/1000 cent: the nearest cent.
Round2Level(x) == RoundDiv(x, 1000)

\* ------------------------------------------------------------ timestamps
MinutesPerBar == 15
CdtOffset == -300
CstOffset == -360

\* The index is tz-converted to America/Chicago: the UTC offset of bar k.
UtcOffset(k, dstEnd) == IF k >= dstEnd THEN CstOffset ELSE CdtOffset

\* pd.Timestamp(...).isoformat(): local wall-clock text followed by the offset
\* text ("-05:00" / "-06:00").  Same-width strings compare like the pair
\* (local minutes, magnitude of the offset).
IsoFormat(k, dstEnd) ==
  [local |-> k * MinutesPerBar + UtcOffset(k, dstEnd),
   offset |-> UtcOffset(k, dstEnd)]

\* The bar an isoformat string denotes (its instant).
BarOf(ts) == (ts.local - ts.offset) \div MinutesPerBar

\* str.__lt__ on two isoformat strings.
IsoLess(s, t) ==
  \/ s.local < t.local
  \/ s.local = t.local /\ (0 - s.offset) < (0 - t.offset)

\* ----------------------------------------------------------- find_swings
Highs(d) == [k \in 1..Len(d) |-> d[k].high]
Lows(d) == [k \in 1..Len(d) |-> d[k].low]

\* numpy take(..., mode="clip"): an index outside the array reads the edge.
Clip(j, n) == Max2(1, Min2(n, j))

\* scipy.signal.argrelextrema(data, np.greater_equal, order=ord)
ArgRelMax(data, ord) ==
  { k \in 1..Len(data) :
      \A s \in 1..ord :
        /\ data[k] >= data[Clip(k + s, Len(data))]
        /\ data[k] >= data[Clip(k - s, Len(data))] }

\* scipy.signal.argrelextrema(data, np.less_equal, order=ord)
ArgRelMin(data, ord) ==
  { k \in 1..Len(data) :
      \A s \in 1..ord :
        /\ data[k] <= data[Clip(k + s, Len(data))]
        /\ data[k] <= data[Clip(k - s, Len(data))] }

\* Series.rolling(2*ord+1, center=True).max() compared with the series by
\* eq(): the rolling value is NaN (never equal) unless the whole window lies
\* inside the series.
RollingMaxEq(data, ord) ==
  { k \in 1..Len(data) :
      /\ k - ord >= 1
      /\ k + ord <= Len(data)
      /\ \A j \in (k - ord)..(k + ord) : data[k] >= data[j] }

RollingMinEq(data, ord) ==
  { k \in 1..Len(data) :
      /\ k - ord >= 1
      /\ k + ord <= Len(data)
      /\ \A j \in (k - ord)..(k + ord) : data[k] <= data[j] }

\* Variant of find_swings: the length guard off by one.
find_swings_ShortGuard(d, ord, scipy) ==
  IF Len(d) < ord * 2
    THEN [hi |-> {}, lo |-> {}]
    ELSE IF scipy
      THEN [hi |-> ArgRelMax(Highs(d), ord), lo |-> ArgRelMin(Lows(d), ord)]
      ELSE [hi |-> RollingMaxEq(Highs(d), ord), lo |-> RollingMinEq(Lows(d), ord)]

\* find_swings: the bar numbers of the swing highs and of the swing lows.
find_swings(d, ord, scipy) ==
  IF Len(d) < ord * 2 + 1
    THEN [hi |-> {}, lo |-> {}]
    ELSE IF scipy
      THEN [hi |-> ArgRelMax(Highs(d), ord), lo |-> ArgRelMin(Lows(d), ord)]
      ELSE [hi |-> RollingMaxEq(Highs(d), ord), lo |-> RollingMinEq(Lows(d), ord)]

\* _build_swing_table: the highs then the lows are concatenated and sorted by
\* timestamp; the sort keeps the concatenation order of equal timestamps at
\* these sizes, so a bar that is both a swing high and a swing low contributes
\* its HIGH row first.
RECURSIVE SwingRows(_, _, _, _)
SwingRows(d, hi, lo, k) ==
  IF k > Len(d) THEN << >>
  ELSE (IF k \in hi
          THEN << [timestamp |-> k, kind |-> "HIGH", price |-> d[k].high] >>
          ELSE << >>)
       \o (IF k \in lo
          THEN << [timestamp |-> k, kind |-> "LOW", price |-> d[k].low] >>
          ELSE << >>)
       \o SwingRows(d, hi, lo, k + 1)

build_swing_table(d, hi, lo) ==
  IF hi = {} /\ lo = {} THEN << >> ELSE SwingRows(d, hi, lo, 1)

\* ----------------------------------------------------- _volume_confirmed
BaselineBars == 20

RECURSIVE SumVolume(_, _, _)
SumVolume(d, from, to) ==
  IF from > to THEN 0 ELSE d[from].volume + SumVolume(d, from + 1, to)

\* Bar k is Python position k-1: "idx[0] < 2" is k < 3, the baseline slice
\* iloc[max(0, i-baseline_bars) : i+1] is bars Max2(1, k-baseline_bars)..k and
\* the recent slice iloc[max(0, i-2) : i+1] is bars Max2(1, k-2)..k.
\* recent >= baseline * 0.9 on the two means, cross-multiplied.
volume_confirmed(d, k, baseline_bars) ==
  LET start == Max2(1, k - baseline_bars)
      bcount == k - start + 1
      bsum == SumVolume(d, start, k)
      rstart == Max2(1, k - 2)
      rcount == k - rstart + 1
      rsum == SumVolume(d, rstart, k)
  IN  IF k < 3 THEN FALSE
      ELSE IF bsum <= 0 THEN FALSE
      ELSE rsum * bcount * 10 >= bsum * 9 * rcount

\* ------------------------------------------------- detect_halsey_signals
Timeframe == "15m"
PatternLabel == "A-B impulse, C retrace 50-61.8%"

BullishKinds(a, b, c) == a.kind = "LOW" /\ b.kind = "HIGH" /\ c.kind = "LOW"
BearishKinds(a, b, c) == a.kind = "HIGH" /\ b.kind = "LOW" /\ c.kind = "HIGH"

BullishShape(a, b, c) ==
  a.price < b.price /\ c.price < b.price /\ c.price > a.price
BearishShape(a, b, c) ==
  a.price > b.price /\ c.price > b.price /\ c.price < a.price

BullishImpulse(a, b) == b.price - a.price
BearishImpulse(a, b) == a.price - b.price

\* retrace = num / impulse as a fraction (impulse > 0 once the shape holds).
BullishRetrace(a, b, c) == [num |-> b.price - c.price, den |-> BullishImpulse(a, b)]
BearishRetrace(a, b, c) == [num |-> c.price - b.price, den |-> BearishImpulse(a, b)]

\* Variants of the band test: the upper bound left out; the lower bound
\* written 0.05.
InBand_NoUpper(r) == 500 * r.den <= 1000 * r.num
InBand_LowTypo(r) == 50 * r.den <= 1000 * r.num /\ 1000 * r.num <= 618 * r.den

\* 0.50 <= retrace <= 0.618
InBand(r) == 500 * r.den <= 1000 * r.num /\ 1000 * r.num <= 618 * r.den

\* Variant of the bullish levels: the stop two pads below C.
BullishLevels_WideStop(c, impulse) ==
  [entry |-> 1000 * c.price + 50 * impulse,
   stop |-> 1000 * c.price - 100 * impulse,
   target_100 |-> 1000 * c.price + 1000 * impulse,
   target_1236 |-> 1000 * c.price + 1236 * impulse]

\* Variant of the bearish levels: the extended target projects 0.236 x impulse.
BearishLevels_ShortTarget(c, impulse) ==
  [entry |-> 1000 * c.price - 50 * impulse,
   stop |-> 1000 * c.price + 50 * impulse,
   target_100 |-> 1000 * c.price - 1000 * impulse,
   target_1236 |-> 1000 * c.price - 236 * impulse]

\* Unrounded levels in 1/1000 cent: entry_pad = impulse * 0.05.
BullishLevels(c, impulse) ==
  [entry |-> 1000 * c.price + 50 * impulse,
   stop |-> 1000 * c.price - 50 * impulse,
   target_100 |-> 1000 * c.price + 1000 * impulse,
   target_1236 |-> 1000 * c.price + 1236 * impulse]

BearishLevels(c, impulse) ==
  [entry |-> 1000 * c.price - 50 * impulse,
   stop |-> 1000 * c.price + 50 * impulse,
   target_100 |-> 1000 * c.price - 1000 * impulse,
   target_1236 |-> 1000 * c.price - 1236 * impulse]

BullishRisk(lv) == lv.entry - lv.stop
BearishRisk(lv) == lv.stop - lv.entry

\* Variant of RiskReward: without a positive risk the reward itself is kept.
RiskReward_KeepsReward(reward, risk) ==
  IF risk > 0 THEN [num |-> reward, den |-> risk] ELSE [num |-> reward, den |-> 1]

\* "reward / risk if risk > 0 else 0.0", kept as a fraction with den > 0.
RiskReward(reward, risk) ==
  IF risk > 0 THEN [num |-> reward, den |-> risk] ELSE [num |-> 0, den |-> 1]

\* rr100 < min_rr, min_rr in hundredths.
RRBelow(rr, minrr) == 100 * rr.num < minrr * rr.den

\* _round2 of a fraction, in hundredths.
Round2Frac(r) == RoundDiv(100 * r.num, r.den)

\* Variants of the bullish filter chain: the reward check ahead of the regime
\* check; the regime check with >=.
FilterLong_RewardFirst(vix, rr100, minrr, rvc, vol_ok) ==
  IF RRBelow(rr100, minrr)
    THEN [enabled |-> FALSE,
          reason |-> <<"Filtered long: RR100", Round2Frac(rr100), "<", minrr>>]
  ELSE IF vix > 1800
    THEN [enabled |-> FALSE,
          reason |-> <<"Filtered long: VIX", vix, "> 18.00">>]
  ELSE IF rvc /\ ~vol_ok
    THEN [enabled |-> FALSE,
          reason |-> <<"Filtered long: no volume confirmation">>]
  ELSE [enabled |-> TRUE, reason |-> << >>]

FilterLong_RegimeGE(vix, rr100, minrr, rvc, vol_ok) ==
  IF vix >= 1800
    THEN [enabled |-> FALSE,
          reason |-> <<"Filtered long: VIX", vix, "> 18.00">>]
  ELSE IF RRBelow(rr100, minrr)
    THEN [enabled |-> FALSE,
          reason |-> <<"Filtered long: RR100", Round2Frac(rr100), "<", minrr>>]
  ELSE IF rvc /\ ~vol_ok
    THEN [enabled |-> FALSE,
          reason |-> <<"Filtered long: no volume confirmation">>]
  ELSE [enabled |-> TRUE, reason |-> << >>]

\* The filter chain of a bullish pattern.  A reason is the token sequence of
\* the f-string; the empty string is the empty sequence.
FilterLong(vix, rr100, minrr, rvc, vol_ok) ==
  IF vix > 1800
    THEN [enabled |-> FALSE,
          reason |-> <<"Filtered long: VIX", vix, "> 18.00">>]
  ELSE IF RRBelow(rr100, minrr)
    THEN [enabled |-> FALSE,
          reason |-> <<"Filtered long: RR100", Round2Frac(rr100), "<", minrr>>]
  ELSE IF rvc /\ ~vol_ok
    THEN [enabled |-> FALSE,
          reason |-> <<"Filtered long: no volume confirmation">>]
  ELSE [enabled |-> TRUE, reason |-> << >>]

\* Variant of the bearish filter chain: the reward branch leaves the reason
\* empty.
FilterShort_NoReason(vix, rr100, minrr, rvc, vol_ok) ==
  IF vix < 1600
    THEN [enabled |-> FALSE,
          reason |-> <<"Filtered short: VIX", vix, "< 16.00">>]
  ELSE IF RRBelow(rr100, minrr)
    THEN [enabled |-> FALSE, reason |-> << >>]
  ELSE IF rvc /\ ~vol_ok
    THEN [enabled |-> FALSE,
          reason |-> <<"Filtered short: no volume confirmation">>]
  ELSE [enabled |-> TRUE, reason |-> << >>]

\* The filter chain of a bearish pattern.
FilterShort(vix, rr100, minrr, rvc, vol_ok) ==
  IF vix < 1600
    THEN [enabled |-> FALSE,
          reason |-> <<"Filtered short: VIX", vix, "< 16.00">>]
  ELSE IF RRBelow(rr100, minrr)
    THEN [enabled |-> FALSE,
          reason |-> <<"Filtered short: RR100", Round2Frac(rr100), "<", minrr>>]
  ELSE IF rvc /\ ~vol_ok
    THEN [enabled |-> FALSE,
          reason |-> <<"Filtered short: no volume confirmation">>]
  ELSE [enabled |-> TRUE, reason |-> << >>]

HalseySignal(dir, ts, impulse, retrace, lv, rr100, rr1236, flt, vol_ok) ==
  [timeframe |-> Timeframe,
   timestamp |-> ts,
   direction |-> dir,
   pattern |-> PatternLabel,
   impulse_points |-> Round2Level(1000 * impulse),
   retrace_pct |-> RoundDiv(10000 * retrace.num, retrace.den),
   entry |-> Round2Level(lv.entry),
   stop |-> Round2Level(lv.stop),
   target_100 |-> Round2Level(lv.target_100),
   target_1236 |-> Round2Level(lv.target_1236),
   risk_reward_100 |-> Round2Frac(rr100),
   risk_reward_1236 |-> Round2Frac(rr1236),
   enabled |-> flt.enabled,
   filter_reason |-> flt.reason,
   volume_confirmed |-> vol_ok]

LongSignal(d, a, b, c, vix, minrr, rvc, dstEnd) ==
  LET impulse == BullishImpulse(a, b)
      lv == BullishLevels(c, impulse)
      risk == BullishRisk(lv)
      rr100 == RiskReward(lv.target_100 - lv.entry, risk)
      rr1236 == RiskReward(lv.target_1236 - lv.entry, risk)
      vol_ok == volume_confirmed(d, c.timestamp, BaselineBars)
  IN  HalseySignal("LONG", IsoFormat(c.timestamp, dstEnd), impulse,
                   BullishRetrace(a, b, c), lv, rr100, rr1236,
                   FilterLong(vix, rr100, minrr, rvc, vol_ok), vol_ok)

ShortSignal(d, a, b, c, vix, minrr, rvc, dstEnd) ==
  LET impulse == BearishImpulse(a, b)
      lv == BearishLevels(c, impulse)
      risk == BearishRisk(lv)
      rr100 == RiskReward(lv.entry - lv.target_100, risk)
      rr1236 == RiskReward(lv.entry - lv.target_1236, risk)
      vol_ok == volume_confirmed(d, c.timestamp, BaselineBars)
  IN  HalseySignal("SHORT", IsoFormat(c.timestamp, dstEnd), impulse,
                   BearishRetrace(a, b, c), lv, rr100, rr1236,
                   FilterShort(vix, rr100, minrr, rvc, vol_ok), vol_ok)

\* Variant of the loop body: a filtered-out signal is not appended.
TripleSignals_DropDisabled(d, a, b, c, vix, minrr, rvc, dstEnd) ==
  IF BullishKinds(a, b, c)
    THEN IF ~BullishShape(a, b, c) THEN << >>
         ELSE IF ~InBand(BullishRetrace(a, b, c)) THEN << >>
         ELSE IF ~LongSignal(d, a, b, c, vix, minrr, rvc, dstEnd).enabled THEN << >>
         ELSE << LongSignal(d, a, b, c, vix, minrr, rvc, dstEnd) >>
  ELSE IF BearishKinds(a, b, c)
    THEN IF ~BearishShape(a, b, c) THEN << >>
         ELSE IF ~InBand(BearishRetrace(a, b, c)) THEN << >>
         ELSE IF ~ShortSignal(d, a, b, c, vix, minrr, rvc, dstEnd).enabled THEN << >>
         ELSE << ShortSignal(d, a, b, c, vix, minrr, rvc, dstEnd) >>
  ELSE << >>

\* One pass of the loop body on the triple (a, b, c): the signals it appends.
\* A triple whose kinds match but whose shape or band check fails hits
\* "continue"; the two kind patterns exclude each other.
TripleSignals(d, a, b, c, vix, minrr, rvc, dstEnd) ==
  IF BullishKinds(a, b, c)
    THEN IF ~BullishShape(a, b, c) THEN << >>
         ELSE IF ~InBand(BullishRetrace(a, b, c)) THEN << >>
         ELSE << LongSignal(d, a, b, c, vix, minrr, rvc, dstEnd) >>
  ELSE IF BearishKinds(a, b, c)
    THEN IF ~BearishShape(a, b, c) THEN << >>
         ELSE IF ~InBand(BearishRetrace(a, b, c)) THEN << >>
         ELSE << ShortSignal(d, a, b, c, vix, minrr, rvc, dstEnd) >>
  ELSE << >>

\* signals.sort(key=lambda s: s.timestamp): stable, on the isoformat strings.
RECURSIVE InsertByTimestamp(_, _)
InsertByTimestamp(sorted, x) ==
  IF sorted = << >> THEN << x >>
  ELSE LET last == sorted[Len(sorted)]
       IN  IF IsoLess(x.timestamp, last.timestamp)
             THEN Append(InsertByTimestamp(SubSeq(sorted, 1, Len(sorted) - 1), x), last)
             ELSE Append(sorted, x)

RECURSIVE SortByTimestamp(_)
SortByTimestamp(sigs) ==
  IF sigs = << >> THEN << >>
  ELSE InsertByTimestamp(SortByTimestamp(SubSeq(sigs, 1, Len(sigs) - 1)),
                         sigs[Len(sigs)])

\* The loop "for i in range(len(swings) - 2)" from position k on.
RECURSIVE ScanFrom(_, _, _, _, _, _, _)
ScanFrom(d, sw, k, vix, minrr, rvc, dstEnd) ==
  IF k > Len(sw) - 2 THEN << >>
  ELSE TripleSignals(d, sw[k], sw[k + 1], sw[k + 2], vix, minrr, rvc, dstEnd)
       \o ScanFrom(d, sw, k + 1, vix, minrr, rvc, dstEnd)

\* detect_halsey_signals as a function of its arguments.
detect_halsey_signals(d, ord, scipy, vix, minrr, rvc, dstEnd) ==
  LET fs == find_swings(d, ord, scipy)
      sw == build_swing_table(d, fs.hi, fs.lo)
  IN  IF sw = << >> THEN << >>
      ELSE SortByTimestamp(ScanFrom(d, sw, 1, vix, minrr, rvc, dstEnd))

\* ------------------------------------------------------------ the machine
TypeOK ==
  /\ df \in SeqsUpTo(CandleSet, MaxBars)
  /\ order \in Orders
  /\ have_scipy \in BOOLEAN
  /\ vix_level \in VixLevels
  /\ min_rr \in MinRRs
  /\ require_volume_confirmation \in BOOLEAN
  /\ dst_end \in DstEnds
  /\ pc \in {"find_swings", "build_swing_table", "scan", "done"}

Init ==
  /\ LiveIdle
  /\ df \in SeqsUpTo(CandleSet, MaxBars)
  /\ order \in Orders
  /\ have_scipy \in BOOLEAN
  /\ vix_level \in VixLevels
  /\ min_rr \in MinRRs
  /\ require_volume_confirmation \in BOOLEAN
  /\ dst_end \in DstEnds
  /\ pc = "find_swings"
  /\ hi_idx = {}
  /\ lo_idx = {}
  /\ swings = << >>
  /\ i = 1
  /\ signals = << >>
  /\ call = NoCall
  /\ result = NoResult

\* find_swings(df, order), called from _build_swing_table.
FindSwings ==
  /\ pc = "find_swings"
  /\ LET fs == find_swings(df, order, have_scipy)
     IN  hi_idx' = fs.hi /\ lo_idx' = fs.lo
  /\ pc' = "build_swing_table"
  /\ UNCHANGED <<live, direct, inputs, swings, i, signals>>

\* The rest of _build_swing_table, and "if swings.empty: return []".
BuildSwingTable ==
  /\ pc = "build_swing_table"
  /\ swings' = build_swing_table(df, hi_idx, lo_idx)
  /\ pc' = IF swings' = << >> THEN "done" ELSE "scan"
  /\ UNCHANGED <<live, direct, inputs, hi_idx, lo_idx, i, signals>>

Scanning == pc = "scan" /\ i <= Len(swings) - 2

Emitted ==
  TripleSignals(df, swings[i], swings[i + 1], swings[i + 2],
                vix_level, min_rr, require_volume_confirmation, dst_end)

\* A loop pass that appends a LONG signal.
EmitLong ==
  /\ Scanning
  /\ Emitted # << >>
  /\ Emitted[1].direction = "LONG"
  /\ signals' = signals \o Emitted
  /\ i' = i + 1
  /\ UNCHANGED <<live, direct, inputs, pc, hi_idx, lo_idx, swings>>

\* A loop pass that appends a SHORT signal.
EmitShort ==
  /\ Scanning
  /\ Emitted # << >>
  /\ Emitted[1].direction = "SHORT"
  /\ signals' = signals \o Emitted
  /\ i' = i + 1
  /\ UNCHANGED <<live, direct, inputs, pc, hi_idx, lo_idx, swings>>

\* A loop pass that appends nothing.
SkipTriple ==
  /\ Scanning
  /\ Emitted = << >>
  /\ i' = i + 1
  /\ UNCHANGED <<live, direct, inputs, pc, hi_idx, lo_idx, swings, signals>>

\* Loop exit: the final sort and the return.
SortAndReturn ==
  /\ pc = "scan"
  /\ i > Len(swings) - 2
  /\ signals' = SortByTimestamp(signals)
  /\ pc' = "done"
  /\ UNCHANGED <<live, direct, inputs, hi_idx, lo_idx, swings, i>>

Next ==
  \/ FindSwings
  \/ BuildSwingTable
  \/ EmitLong
  \/ EmitShort
  \/ SkipTriple
  \/ SortAndReturn

Spec == Init /\ [][Next]_vars

\* A series recorded across the end of daylight saving time: bar dst_end is
\* the first bar stamped -06:00, with the filters at their defaults.
DstEndsInSeries == 2..MaxBars

InitDst ==
  /\ LiveIdle
  /\ df \in SeqsUpTo(CandleSet, MaxBars)
  /\ order \in Orders
  /\ have_scipy \in BOOLEAN
  /\ vix_level = 1500
  /\ min_rr = 200
  /\ require_volume_confirmation = FALSE
  /\ dst_end \in DstEndsInSeries
  /\ pc = "find_swings"
  /\ hi_idx = {}
  /\ lo_idx = {}
  /\ swings = << >>
  /\ i = 1
  /\ signals = << >>
  /\ call = NoCall
  /\ result = NoResult

SpecDst == InitDst /\ [][Next]_vars

\* ---------------------------------------------------- calls of one function
\* Optional[float]: None is the empty sequence, a value x is <<x>>.
None == << >>
Some(x) == << x >>

TIMEFRAME_ORDER == <<"5m", "15m", "1h", "4h", "1d">>
Timeframes == { TIMEFRAME_ORDER[k] : k \in 1..Len(TIMEFRAME_ORDER) }

\* The state of the detect_halsey_signals machine while a single function is
\* called directly.
PipelineIdle ==
  /\ df = << >>
  /\ order = 1
  /\ have_scipy = TRUE
  /\ vix_level = 1500
  /\ min_rr = 200
  /\ require_volume_confirmation = FALSE
  /\ dst_end = 0
  /\ hi_idx = {}
  /\ lo_idx = {}
  /\ swings = << >>
  /\ i = 1
  /\ signals = << >>

pipeline == <<inputs, hi_idx, lo_idx, swings, i, signals>>

Returned(fn) == pc = "returned" /\ call.fn = fn

\* -------------------------------------------------- summarize_timeframe
MaxSignals == 3

\* The fields of a HalseySignal that summarize_timeframe reads.
SummarySignals ==
  { [direction |-> "LONG", enabled |-> TRUE,
     entry |-> 10450, stop |-> 10350, target_100 |-> 11400],
    [direction |-> "LONG", enabled |-> FALSE,
     entry |-> 10001, stop |-> 10001, target_100 |-> 10003],
    [direction |-> "SHORT", enabled |-> TRUE,
     entry |-> 10587, stop |-> 10649, target_100 |-> 9618],
    [direction |-> "SHORT", enabled |-> FALSE,
     entry |-> 10002, stop |-> 10002, target_100 |-> 10000] }

IsEnabled(s) == s.enabled

\* Variant of summarize_timeframe: the last signal of the list is taken
\* whatever its state.
summarize_timeframe_LastAny(sigs, timeframe) ==
  LET enabled == SelectSeq(sigs, IsEnabled)
      latest == IF sigs # << >> THEN Some(sigs[Len(sigs)]) ELSE None
  IN  IF latest = None
        THEN [timeframe |-> timeframe,
              signal_count |-> 0,
              enabled_signal_count |-> 0,
              latest_direction |-> "NEUTRAL",
              latest_entry |-> None,
              latest_stop |-> None,
              latest_target_100 |-> None]
        ELSE [timeframe |-> timeframe,
              signal_count |-> Len(sigs),
              enabled_signal_count |-> Len(enabled),
              latest_direction |-> latest[1].direction,
              latest_entry |-> Some(latest[1].entry),
              latest_stop |-> Some(latest[1].stop),
              latest_target_100 |-> Some(latest[1].target_100)]

\* Variant of summarize_timeframe: a list without an enabled signal is
\* summarized like the empty list.
summarize_timeframe_SkipDisabled(sigs, timeframe) ==
  LET enabled == SelectSeq(sigs, IsEnabled)
      latest == IF enabled # << >> THEN Some(enabled[Len(enabled)]) ELSE None
  IN  IF latest = None
        THEN [timeframe |-> timeframe,
              signal_count |-> 0,
              enabled_signal_count |-> 0,
              latest_direction |-> "NEUTRAL",
              latest_entry |-> None,
              latest_stop |-> None,
              latest_target_100 |-> None]
        ELSE [timeframe |-> timeframe,
              signal_count |-> Len(sigs),
              enabled_signal_count |-> Len(enabled),
              latest_direction |-> latest[1].direction,
              latest_entry |-> Some(latest[1].entry),
              latest_stop |-> Some(latest[1].stop),
              latest_target_100 |-> Some(latest[1].target_100)]

summarize_timeframe(sigs, timeframe) ==
  LET enabled == SelectSeq(sigs, IsEnabled)
      latest == IF enabled # << >> THEN Some(enabled[Len(enabled)])
                ELSE IF sigs # << >> THEN Some(sigs[Len(sigs)])
                ELSE None
  IN  IF latest = None
        THEN [timeframe |-> timeframe,
              signal_count |-> 0,
              enabled_signal_count |-> 0,
              latest_direction |-> "NEUTRAL",
              latest_entry |-> None,
              latest_stop |-> None,
              latest_target_100 |-> None]
        ELSE [timeframe |-> timeframe,
              signal_count |-> Len(sigs),
              enabled_signal_count |-> Len(enabled),
              latest_direction |-> latest[1].direction,
              latest_entry |-> Some(latest[1].entry),
              latest_stop |-> Some(latest[1].stop),
              latest_target_100 |-> Some(latest[1].target_100)]

InitSummary ==
  /\ LiveIdle
  /\ PipelineIdle
  /\ pc = "call"
  /\ \E sigs \in SeqsUpTo(SummarySignals, MaxSignals), tf \in Timeframes :
       call = [fn |-> "summarize_timeframe", signals |-> sigs, timeframe |-> tf]
  /\ result = NoResult

Summarize ==
  /\ pc = "call"
  /\ call.fn = "summarize_timeframe"
  /\ result' = summarize_timeframe(call.signals, call.timeframe)
  /\ pc' = "returned"
  /\ UNCHANGED <<live, pipeline, call>>

NextSummary == Summarize

SpecSummary == InitSummary /\ [][NextSummary]_vars

\* ---------------------------------------- build_confluence_and_forecast
\* _round2 of the rational num/den, in hundredths.
Round2(num, den) == RoundDiv(100 * num, den)

\* vix_level in hundredths.
\* Variant of classify_vix_regime: 16.00 still counts as low volatility.
classify_vix_regime_LowInclusive(vix) ==
  IF vix >= 2000 THEN "HIGH_VOL"
  ELSE IF vix >= 1800 THEN "ELEVATED"
  ELSE IF vix <= 1600 THEN "LOW_VOL"
  ELSE "MODERATE"

classify_vix_regime(vix) ==
  IF vix >= 2000 THEN "HIGH_VOL"
  ELSE IF vix >= 1800 THEN "ELEVATED"
  ELSE IF vix < 1600 THEN "LOW_VOL"
  ELSE "MODERATE"

\* weights, in tenths.
weights ==
  [tf \in Timeframes |->
     CASE tf = "5m" -> 10
       [] tf = "15m" -> 15
       [] tf = "1h" -> 20
       [] tf = "4h" -> 25
       [] tf = "1d" -> 30]

\* The loop over summaries.items(): the keys in insertion order, which is
\* TIMEFRAME_ORDER restricted to the keys present.
RECURSIVE ScoreFrom(_, _)
ScoreFrom(summaries, k) ==
  IF k > Len(TIMEFRAME_ORDER) THEN 0
  ELSE LET tf == TIMEFRAME_ORDER[k]
           rest == ScoreFrom(summaries, k + 1)
       IN  IF tf \notin DOMAIN summaries THEN rest
           ELSE IF summaries[tf].latest_direction = "LONG"
                  THEN weights[tf] + rest
           ELSE IF summaries[tf].latest_direction = "SHORT"
                  THEN rest - weights[tf]
           ELSE rest

\* Variant of Score: a SHORT timeframe is not subtracted.
Score_IgnoreShort(summaries) ==
  LET long == { tf \in DOMAIN summaries : summaries[tf].latest_direction = "LONG" }
      onlyLong == [tf \in long |-> summaries[tf]]
  IN  ScoreFrom(onlyLong, 1)

\* score, in tenths.
Score(summaries) == ScoreFrom(summaries, 1)

\* Variant of Bias: the thresholds are inclusive.
Bias_NonStrict(score) ==
  IF score >= 15 THEN "LONG"
  ELSE IF score <= -15 THEN "SHORT"
  ELSE "NEUTRAL"

Bias(score) ==
  IF score > 15 THEN "LONG"
  ELSE IF score < -15 THEN "SHORT"
  ELSE "NEUTRAL"

Horizons == {"1_week", "1_month", "1_quarter", "6_year"}

\* Bands are pairs <<low, high>>, in tenths of a percent.
long_ranges ==
  [h \in Horizons |->
     CASE h = "1_week" -> <<8, 28>>
       [] h = "1_month" -> <<20, 60>>
       [] h = "1_quarter" -> <<45, 120>>
       [] h = "6_year" -> <<250, 850>>]

\* Variant of short_ranges: the 1_month band is not the mirror of the long one.
short_ranges_Unmirrored ==
  [h \in Horizons |->
     CASE h = "1_week" -> <<-28, -8>>
       [] h = "1_month" -> <<-60, -25>>
       [] h = "1_quarter" -> <<-120, -45>>
       [] h = "6_year" -> <<-850, -250>>]

short_ranges ==
  [h \in Horizons |->
     CASE h = "1_week" -> <<-28, -8>>
       [] h = "1_month" -> <<-60, -20>>
       [] h = "1_quarter" -> <<-120, -45>>
       [] h = "6_year" -> <<-850, -250>>]

Ranges(bias) ==
  IF bias = "LONG" THEN long_ranges
  ELSE IF bias = "SHORT" THEN short_ranges
  ELSE [h \in Horizons |-> <<-10, 10>>]

\* Variant of vol_mult: high volatility widens the bands.
vol_mult_HighVolWidens(regime) ==
  CASE regime = "LOW_VOL" -> 110
    [] regime = "MODERATE" -> 100
    [] regime = "ELEVATED" -> 90
    [] regime = "HIGH_VOL" -> 125

\* vol_mult, in hundredths.
vol_mult(regime) ==
  CASE regime = "LOW_VOL" -> 110
    [] regime = "MODERATE" -> 100
    [] regime = "ELEVATED" -> 90
    [] regime = "HIGH_VOL" -> 75

\* adjusted: each bound times vol_mult (thousandths of a percent), rounded to
\* hundredths of a percent.
Adjusted(ranges, mult) ==
  [h \in DOMAIN ranges |->
     << Round2(ranges[h][1] * mult, 1000), Round2(ranges[h][2] * mult, 1000) >>]

Notes ==
  << "Halsey confluence: 5m/15m entries filtered by 1h/4h/1d directional structure.",
     "Fib retrace window is strict 50%-61.8% for low-risk measured move setups.",
     "VIX filter applied: longs are damped above 18, shorts are damped below 16." >>

\* score and the forecast bounds are returned in hundredths.
build_confluence_and_forecast(summaries, vix) ==
  LET score == Score(summaries)
      bias == Bias(score)
      regime == classify_vix_regime(vix)
  IN  [bias |-> bias,
       score |-> Round2(score, 10),
       vix_level |-> Round2(vix, 100),
       vix_regime |-> regime,
       forecast_ranges_pct |-> Adjusted(Ranges(bias), vol_mult(regime)),
       notes |-> Notes]

SnapshotDirections == {"LONG", "SHORT", "NEUTRAL"}

\* The field of a TimeframeSnapshot that build_confluence_and_forecast reads.
SummaryMaps ==
  UNION { [present -> [latest_direction : SnapshotDirections]] :
            present \in SUBSET Timeframes }

ConfluenceVix == {1500, 1599, 1600, 1799, 1800, 1999, 2000, 2200}

\* The same structure seen from the other side of the market.
Opposite(summaries) ==
  [tf \in DOMAIN summaries |->
     [latest_direction |->
        IF summaries[tf].latest_direction = "LONG" THEN "SHORT"
        ELSE IF summaries[tf].latest_direction = "SHORT" THEN "LONG"
        ELSE "NEUTRAL"]]

InitConfluence ==
  /\ LiveIdle
  /\ PipelineIdle
  /\ pc = "call"
  /\ \E sm \in SummaryMaps, vix \in ConfluenceVix :
       call = [fn |-> "build_confluence_and_forecast",
               summaries |-> sm, vix_level |-> vix]
  /\ result = NoResult

BuildConfluence ==
  /\ pc = "call"
  /\ call.fn = "build_confluence_and_forecast"
  /\ result' = build_confluence_and_forecast(call.summaries, call.vix_level)
  /\ pc' = "returned"
  /\ UNCHANGED <<live, pipeline, call>>

\* The next analysis: a newly fetched volatility level, and the timeframe
\* structure either as before or reversed. The previous result stays with the
\* caller until the new one is returned.
CallAgain ==
  /\ pc = "returned"
  /\ call.fn = "build_confluence_and_forecast"
  /\ \E vix \in ConfluenceVix, sm \in {call.summaries, Opposite(call.summaries)} :
       call' = [call EXCEPT !.summaries = sm, !.vix_level = vix]
  /\ pc' = "call"
  /\ UNCHANGED <<live, pipeline, result>>

NextConfluence == BuildConfluence \/ CallAgain

SpecConfluence == InitConfluence /\ [][NextConfluence]_vars

\* ------------------------------------------------------ _volume_confirmed
MaxVolumeBars == 22
Volumes == {0, 10, 100}

\* A flat series of n candles whose volume is head on the first bar, tail on
\* the last three bars and body in between.
VolumeSeries(n, head, body, tail) ==
  [k \in 1..n |->
     [low |-> 10000, high |-> 10000,
      volume |-> IF k > n - 3 THEN tail ELSE IF k = 1 THEN head ELSE body]]

\* ts is the timestamp of a bar of df, so get_indexer(method="pad") gives the
\* position idx of that bar.
InitVolume ==
  /\ LiveIdle
  /\ PipelineIdle
  /\ pc = "call"
  /\ \E n \in 1..MaxVolumeBars, head \in Volumes, body \in Volumes,
        tail \in Volumes :
       \E k \in 1..n :
         call = [fn |-> "_volume_confirmed",
                 df |-> VolumeSeries(n, head, body, tail), idx |-> k]
  /\ result = NoResult

VolumeConfirmed ==
  /\ pc = "call"
  /\ call.fn = "_volume_confirmed"
  /\ result' = volume_confirmed(call.df, call.idx, BaselineBars)
  /\ pc' = "returned"
  /\ UNCHANGED <<live, pipeline, call>>

NextVolume == VolumeConfirmed

SpecVolume == InitVolume /\ [][NextVolume]_vars

\* ------------------------------------- one triple on coarse float prices
\* Prices of magnitude 2^52: consecutive doubles are 1.0 apart, so a price is
\* held as its distance k (in units of 1.0) from the even double 2^52 + 1024,
\* and every float sum below is the exact sum rounded to the nearest integer,
\* ties to even.
MaxUlps == 12
CoarsePrices == 0..MaxUlps

\* entry_pad = impulse * 0.05; entry = float(c + entry_pad), stop =
\* float(c - entry_pad), target_100 = float(c + impulse) (exact),
\* target_1236 = float(c + impulse * 1.236).
CoarseBullishLevels(c, impulse) ==
  [entry |-> RoundDiv(20 * c.price + impulse, 20),
   stop |-> RoundDiv(20 * c.price - impulse, 20),
   target_100 |-> c.price + impulse,
   target_1236 |-> RoundDiv(1000 * c.price + 1236 * impulse, 1000)]

CoarseBearishLevels(c, impulse) ==
  [entry |-> RoundDiv(20 * c.price - impulse, 20),
   stop |-> RoundDiv(20 * c.price + impulse, 20),
   target_100 |-> c.price - impulse,
   target_1236 |-> RoundDiv(1000 * c.price - 1236 * impulse, 1000)]

\* _round2 leaves an integer-valued price as it is.
CoarseSignal(dir, c, impulse, retrace, lv, rr100, rr1236, flt, vol_ok) ==
  [timeframe |-> Timeframe,
   timestamp |-> IsoFormat(c.timestamp, 0),
   direction |-> dir,
   pattern |-> PatternLabel,
   impulse_points |-> impulse,
   retrace_pct |-> RoundDiv(10000 * retrace.num, retrace.den),
   entry |-> lv.entry,
   stop |-> lv.stop,
   target_100 |-> lv.target_100,
   target_1236 |-> lv.target_1236,
   risk_reward_100 |-> Round2Frac(rr100),
   risk_reward_1236 |-> Round2Frac(rr1236),
   enabled |-> flt.enabled,
   filter_reason |-> flt.reason,
   volume_confirmed |-> vol_ok]

CoarseLongSignal(a, b, c, vix, minrr, rvc, vol_ok) ==
  LET impulse == BullishImpulse(a, b)
      lv == CoarseBullishLevels(c, impulse)
      risk == BullishRisk(lv)
      rr100 == RiskReward(lv.target_100 - lv.entry, risk)
      rr1236 == RiskReward(lv.target_1236 - lv.entry, risk)
  IN  CoarseSignal("LONG", c, impulse, BullishRetrace(a, b, c), lv, rr100,
                   rr1236, FilterLong(vix, rr100, minrr, rvc, vol_ok), vol_ok)

CoarseShortSignal(a, b, c, vix, minrr, rvc, vol_ok) ==
  LET impulse == BearishImpulse(a, b)
      lv == CoarseBearishLevels(c, impulse)
      risk == BearishRisk(lv)
      rr100 == RiskReward(lv.entry - lv.target_100, risk)
      rr1236 == RiskReward(lv.entry - lv.target_1236, risk)
  IN  CoarseSignal("SHORT", c, impulse, BearishRetrace(a, b, c), lv, rr100,
                   rr1236, FilterShort(vix, rr100, minrr, rvc, vol_ok), vol_ok)

\* One pass of the loop body over the triple (a, b, c): the signals appended.
CoarseTripleSignals(a, b, c, vix, minrr, rvc, vol_ok) ==
  IF BullishKinds(a, b, c)
    THEN IF ~BullishShape(a, b, c) THEN << >>
         ELSE IF ~InBand(BullishRetrace(a, b, c)) THEN << >>
         ELSE << CoarseLongSignal(a, b, c, vix, minrr, rvc, vol_ok) >>
  ELSE IF BearishKinds(a, b, c)
    THEN IF ~BearishShape(a, b, c) THEN << >>
         ELSE IF ~InBand(BearishRetrace(a, b, c)) THEN << >>
         ELSE << CoarseShortSignal(a, b, c, vix, minrr, rvc, vol_ok) >>
  ELSE << >>

CoarseKinds == { <<"LOW", "HIGH", "LOW">>, <<"HIGH", "LOW", "HIGH">> }
CoarseVix == {1500, 1900}
CoarseMinRRs == {50, 200, 2000}

CoarseSwing(k, kind, price) == [timestamp |-> k, kind |-> kind, price |-> price]

InitCoarse ==
  /\ LiveIdle
  /\ PipelineIdle
  /\ pc = "call"
  /\ \E kinds \in CoarseKinds, pa \in CoarsePrices, pb \in CoarsePrices,
        pc_ \in CoarsePrices, vix \in CoarseVix, minrr \in CoarseMinRRs,
        rvc \in BOOLEAN, vol_ok \in BOOLEAN :
       call = [fn |-> "triple",
               a |-> CoarseSwing(1, kinds[1], pa),
               b |-> CoarseSwing(2, kinds[2], pb),
               c |-> CoarseSwing(3, kinds[3], pc_),
               vix_level |-> vix, min_rr |-> minrr,
               require_volume_confirmation |-> rvc, vol_ok |-> vol_ok]
  /\ result = NoResult

CoarseResult ==
  CoarseTripleSignals(call.a, call.b, call.c, call.vix_level, call.min_rr,
                      call.require_volume_confirmation, call.vol_ok)

EmitCoarse ==
  /\ pc = "call"
  /\ call.fn = "triple"
  /\ CoarseResult # << >>
  /\ result' = CoarseResult
  /\ pc' = "returned"
  /\ UNCHANGED <<live, pipeline, call>>

SkipCoarse ==
  /\ pc = "call"
  /\ call.fn = "triple"
  /\ CoarseResult = << >>
  /\ result' = << >>
  /\ pc' = "returned"
  /\ UNCHANGED <<live, pipeline, call>>

NextCoarse == EmitCoarse \/ SkipCoarse

SpecCoarse == InitCoarse /\ [][NextCoarse]_vars

\* ------------------------------- _normalize_ohlcv and fetch_mes_databento
MaxRows == 3

Required == {"open", "high", "low", "close", "volume"}

\* The column sets of a raw frame: complete, or with one required column
\* missing.
ColumnSets == {Required} \cup { Required \ {c} : c \in Required }

\* A raw row: its timestamp and whether all of its fields are numbers (a row
\* holding a NaN is complete = FALSE).
RawRows == [ts : 1..MaxRows, complete : BOOLEAN]

\* Row sequences without a repeated timestamp, in any order.
RawSeries ==
  { r \in SeqsUpTo(RawRows, MaxRows) :
      \A j, k \in 1..Len(r) : j # k => r[j].ts # r[k].ts }

IsComplete(row) == row.complete

\* sort_index() on rows with distinct timestamps.
RECURSIVE SortIndex(_)
SortIndex(rows) ==
  IF rows = << >> THEN << >>
  ELSE LET low == CHOOSE j \in 1..Len(rows) :
                    \A k \in 1..Len(rows) : rows[j].ts <= rows[k].ts
           rest == [k \in 1..(Len(rows) - 1) |->
                      IF k < low THEN rows[k] ELSE rows[k + 1]]
       IN  << rows[low] >> \o SortIndex(rest)

\* df.empty returns an empty frame; a missing required column raises
\* RuntimeError; otherwise normalized.sort_index().dropna().
normalize_ohlcv(rows, columns) ==
  IF rows = << >>
    THEN [raised |-> FALSE, frame |-> << >>]
  ELSE IF Required \ columns # {}
    THEN [raised |-> TRUE, frame |-> << >>]
  ELSE [raised |-> FALSE, frame |-> SelectSeq(SortIndex(rows), IsComplete)]

\* fetch_mes_databento from raw = response.to_df() on: an error of
\* _normalize_ohlcv propagates, an empty normalized frame raises RuntimeError.
fetch_mes_databento(rows, columns) ==
  LET n == normalize_ohlcv(rows, columns)
  IN  IF n.raised THEN n
      ELSE IF n.frame = << >> THEN [raised |-> TRUE, frame |-> << >>]
      ELSE n

InitFetch ==
  /\ LiveIdle
  /\ PipelineIdle
  /\ pc = "call"
  /\ \E rows \in RawSeries, columns \in ColumnSets :
       call = [fn |-> "fetch_mes_databento", rows |-> rows, columns |-> columns]
  /\ result = NoResult

FetchReturn ==
  /\ pc = "call"
  /\ call.fn = "fetch_mes_databento"
  /\ ~fetch_mes_databento(call.rows, call.columns).raised
  /\ result' = fetch_mes_databento(call.rows, call.columns)
  /\ pc' = "returned"
  /\ UNCHANGED <<live, pipeline, call>>

FetchRaise ==
  /\ pc = "call"
  /\ call.fn = "fetch_mes_databento"
  /\ fetch_mes_databento(call.rows, call.columns).raised
  /\ result' = fetch_mes_databento(call.rows, call.columns)
  /\ pc' = "returned"
  /\ UNCHANGED <<live, pipeline, call>>

NextFetch == FetchReturn \/ FetchRaise

SpecFetch == InitFetch /\ [][NextFetch]_vars

\* ------------------------------------------------ the ways into the engine
\* mes_signals (HTTP), main (command line) and a direct call of
\* detect_halsey_signals, each with a swing order and a min_rr (hundredths).
EntryPoints == {"mes_signals", "main", "detect_halsey_signals"}
EntryOrders == {1, 2, 20, 21}
EntryMinRRs == {49, 200, 2001}

\* Query(ge=2, le=20) on swing_order and Query(ge=0.5, le=20.0) on min_rr.
QueryValid(swing_order, minrr) ==
  /\ swing_order >= 2
  /\ swing_order <= 20
  /\ minrr >= 50
  /\ minrr <= 2000

InitEntry ==
  /\ LiveIdle
  /\ df \in SeqsUpTo(CandleSet, MaxBars)
  /\ order = 5
  /\ have_scipy = TRUE
  /\ vix_level = 1500
  /\ min_rr = 200
  /\ require_volume_confirmation = FALSE
  /\ dst_end = 0
  /\ pc = "entry"
  /\ hi_idx = {}
  /\ lo_idx = {}
  /\ swings = << >>
  /\ i = 1
  /\ signals = << >>
  /\ \E fn \in EntryPoints, o \in EntryOrders, m \in EntryMinRRs :
       call = [fn |-> fn, swing_order |-> o, min_rr |-> m]
  /\ result = NoResult

\* The engine starts with the configuration of the call.
EnterEngine ==
  /\ order' = call.swing_order
  /\ min_rr' = call.min_rr
  /\ pc' = "find_swings"
  /\ UNCHANGED <<live, direct, df, have_scipy, vix_level,
                 require_volume_confirmation, dst_end,
                 hi_idx, lo_idx, swings, i, signals>>

\* The Query constraints fail: the request is answered 422 and the handler
\* does not run.
HttpReject ==
  /\ pc = "entry"
  /\ call.fn = "mes_signals"
  /\ ~QueryValid(call.swing_order, call.min_rr)
  /\ pc' = "rejected"
  /\ result' = [status |-> 422]
  /\ UNCHANGED <<live, pipeline, call>>

HttpAccept ==
  /\ pc = "entry"
  /\ call.fn = "mes_signals"
  /\ QueryValid(call.swing_order, call.min_rr)
  /\ EnterEngine

\* parse_args reads --swing-order as int and --min-rr as float; main passes
\* them on.
CliMain ==
  /\ pc = "entry"
  /\ call.fn = "main"
  /\ EnterEngine

DirectCall ==
  /\ pc = "entry"
  /\ call.fn = "detect_halsey_signals"
  /\ EnterEngine

NextEntry == HttpReject \/ HttpAccept \/ CliMain \/ DirectCall \/ Next

SpecEntry == InitEntry /\ [][NextEntry]_vars

\* ------------------------------------------- run_multi_timeframe_analysis
\* What detect_halsey_signals returns for one timeframe of the run.
AnalysisLists ==
  { << >> } \cup { << s >> : s \in SummarySignals }
    \cup { << s, t >> : s, t \in { u \in SummarySignals : ~u.enabled } }

\* Successive readings of the volatility source.
AnalysisFeeds == { <<1500, 1900>>, <<1900, 1500>> }

\* Variant of LoopDone: the loop is left one timeframe early.
LoopDone_EarlyJoin(k) == k > Len(TIMEFRAME_ORDER) - 1

\* "for tf in TIMEFRAME_ORDER" is exhausted.
LoopDone(k) == k > Len(TIMEFRAME_ORDER)

\* While run_multi_timeframe_analysis runs, result holds its locals:
\* vix_level, the position tf in TIMEFRAME_ORDER, summaries, the vix_level
\* passed to detect_halsey_signals per timeframe, and confluence.
InitAnalysis ==
  /\ LiveIdle
  /\ PipelineIdle
  /\ pc = "start"
  /\ \E by_tf \in [Timeframes -> AnalysisLists], feed \in AnalysisFeeds :
       call = [fn |-> "run_multi_timeframe_analysis",
               signals_by_tf |-> by_tf, vix_feed |-> feed]
  /\ result = NoResult

\* vix_level = fetch_vix_fred(), and the empty dictionaries.
FetchVix ==
  /\ pc = "start"
  /\ call.fn = "run_multi_timeframe_analysis"
  /\ result' = [vix_level |-> call.vix_feed[1],
                tf |-> 1,
                summaries |-> << >>,
                vix_passed |-> << >>,
                confluence |-> None]
  /\ pc' = "loop"
  /\ UNCHANGED <<live, pipeline, call>>

\* One pass of the loop: detect_halsey_signals(tf_df, tf, vix_level, ...) and
\* summaries[tf] = summarize_timeframe(signals, tf).
TimeframeStep ==
  /\ pc = "loop"
  /\ ~LoopDone(result.tf)
  /\ LET tf == TIMEFRAME_ORDER[result.tf]
     IN  result' = [result EXCEPT
           !.summaries = (tf :> summarize_timeframe(call.signals_by_tf[tf], tf))
                           @@ result.summaries,
           !.vix_passed = (tf :> result.vix_level) @@ result.vix_passed,
           !.tf = result.tf + 1]
  /\ UNCHANGED <<live, pipeline, call, pc>>

\* confluence = build_confluence_and_forecast(summaries, vix_level)
ConfluenceStep ==
  /\ pc = "loop"
  /\ LoopDone(result.tf)
  /\ result' = [result EXCEPT
       !.confluence =
          Some(build_confluence_and_forecast(result.summaries, result.vix_level))]
  /\ pc' = "returned"
  /\ UNCHANGED <<live, pipeline, call>>

NextAnalysis == FetchVix \/ TimeframeStep \/ ConfluenceStep

SpecAnalysis == InitAnalysis /\ [][NextAnalysis]_vars

\* --------------------------------- CandleAggregator and the live flush loop
MaxRecords == 3
FIFTEEN_MIN_SEC == 900

\* ts_event of a 1-minute record, in whole seconds (ts_event_ns // 10^9).
LiveTimes == {0, 60, 900}

\* open, high, low, close (already divided by FIXED_PRICE_SCALE) and volume;
\* the last shape has a non-positive price.
LiveShapes ==
  { [open |-> 10, high |-> 12, low |-> 9, close |-> 11, volume |-> 1],
    [open |-> 11, high |-> 15, low |-> 10, close |-> 14, volume |-> 2],
    [open |-> 0, high |-> 12, low |-> 9, close |-> 11, volume |-> 1] }

LiveRecords ==
  { [ts |-> t, open |-> sh.open, high |-> sh.high, low |-> sh.low,
     close |-> sh.close, volume |-> sh.volume] :
      t \in LiveTimes, sh \in LiveShapes }

BucketOf(ts_sec) == (ts_sec \div FIFTEEN_MIN_SEC) * FIFTEEN_MIN_SEC

RecordValid(rec) ==
  ~(rec.open <= 0 \/ rec.high <= 0 \/ rec.low <= 0 \/ rec.close <= 0)

\* CandleAggregator.ingest on the dictionary b.
ingest(b, rec) ==
  LET bucket == BucketOf(rec.ts)
  IN  IF ~RecordValid(rec) THEN b
      ELSE IF bucket \notin DOMAIN b
        THEN (bucket :> [open |-> rec.open, high |-> rec.high, low |-> rec.low,
                         close |-> rec.close, volume |-> rec.volume]) @@ b
      ELSE [b EXCEPT ![bucket] =
              [open |-> @.open,
               high |-> Max2(@.high, rec.high),
               low |-> Min2(@.low, rec.low),
               close |-> rec.close,
               volume |-> @.volume + rec.volume]]

\* sorted(self.buckets.keys())
RECURSIVE SortedKeys(_)
SortedKeys(keys) ==
  IF keys = {} THEN << >>
  ELSE LET low == CHOOSE k \in keys : \A j \in keys : k <= j
       IN  << low >> \o SortedKeys(keys \ {low})

DrainResult(b) ==
  LET keys == SortedKeys(DOMAIN b)
  IN  [n \in 1..Len(keys) |->
         [time |-> keys[n], open |-> b[keys[n]].open, high |-> b[keys[n]].high,
          low |-> b[keys[n]].low, close |-> b[keys[n]].close,
          volume |-> b[keys[n]].volume]]

\* Variant of DrainKeep: nothing is kept.
DrainKeep_ClearAll(b) == << >>

\* The dictionary left by drain: only the latest bucket once there are several.
DrainKeep(b) ==
  LET keys == SortedKeys(DOMAIN b)
  IN  IF Len(keys) > 1
        THEN (keys[Len(keys)] :> b[keys[Len(keys)]])
        ELSE b

\* flush_candles in one transaction: each candle is upserted on eventTime, in
\* list order; rowHash is made of the event time and the close.
RECURSIVE Upsert(_, _, _)
Upsert(tbl, cs, n) ==
  IF n > Len(cs) THEN tbl
  ELSE LET c == cs[n]
           row == [open |-> c.open, high |-> c.high, low |-> c.low,
                   close |-> c.close, volume |-> c.volume,
                   rowHash |-> <<c.time, c.close>>]
       IN  Upsert((c.time :> row) @@ tbl, cs, n + 1)

flush_candles(tbl, cs) == Upsert(tbl, cs, 1)

InitLive ==
  /\ PipelineIdle
  /\ pc = "live"
  /\ call = [fn |-> "main"]
  /\ result = NoResult
  /\ buckets = << >>
  /\ candles = << >>
  /\ final_candles = << >>
  /\ table = << >>
  /\ stream = << >>
  /\ fpc = "sleep"

\* record_callback on the stream thread: one record, in any time order.
Ingest ==
  /\ pc = "live"
  /\ Len(stream) < MaxRecords
  /\ \E rec \in LiveRecords :
       /\ buckets' = ingest(buckets, rec)
       /\ stream' = Append(stream, rec)
  /\ UNCHANGED <<pipeline, direct, pc, candles, final_candles, table, fpc>>

\* flush_loop: after the sleep, "if not running: break".
FlushWake ==
  /\ fpc = "sleep"
  /\ fpc' = IF pc = "live" THEN "awake" ELSE "exited"
  /\ UNCHANGED <<pipeline, direct, pc, buckets, candles, final_candles,
                 table, stream>>

\* candles = aggregator.drain()
FlushDrain ==
  /\ fpc = "awake"
  /\ candles' = DrainResult(buckets)
  /\ buckets' = DrainKeep(buckets)
  /\ fpc' = "drained"
  /\ UNCHANGED <<pipeline, direct, pc, final_candles, table, stream>>

\* "if candles:" is false.
FlushSkip ==
  /\ fpc = "drained"
  /\ candles = << >>
  /\ fpc' = "sleep"
  /\ UNCHANGED <<pipeline, direct, pc, buckets, candles, final_candles,
                 table, stream>>

FlushOk ==
  /\ fpc = "drained"
  /\ candles # << >>
  /\ table' = flush_candles(table, candles)
  /\ candles' = << >>
  /\ fpc' = "sleep"
  /\ UNCHANGED <<pipeline, direct, pc, buckets, final_candles, stream>>

\* flush_candles raises: the transaction is rolled back, the error printed.
FlushFail ==
  /\ fpc = "drained"
  /\ candles # << >>
  /\ candles' = << >>
  /\ fpc' = "sleep"
  /\ UNCHANGED <<pipeline, direct, pc, buckets, final_candles, table, stream>>

\* running = False and the live client is stopped.
Stop ==
  /\ pc = "live"
  /\ pc' = "stopping"
  /\ UNCHANGED <<pipeline, direct, live>>

\* The final flush of main.
FinalDrain ==
  /\ pc = "stopping"
  /\ final_candles' = DrainResult(buckets)
  /\ buckets' = DrainKeep(buckets)
  /\ pc' = "final_drained"
  /\ UNCHANGED <<pipeline, direct, candles, table, stream, fpc>>

FinalFlushOk ==
  /\ pc = "final_drained"
  /\ table' = IF final_candles = << >> THEN table
              ELSE flush_candles(table, final_candles)
  /\ final_candles' = << >>
  /\ result' = [status |-> "COMPLETED"]
  /\ pc' = "finalized"
  /\ UNCHANGED <<pipeline, call, buckets, candles, stream, fpc>>

\* The final flush_candles raises: error_msg is set and the run is finalized
\* as FAILED.
FinalFlushFail ==
  /\ pc = "final_drained"
  /\ final_candles # << >>
  /\ final_candles' = << >>
  /\ result' = [status |-> "FAILED"]
  /\ pc' = "finalized"
  /\ UNCHANGED <<pipeline, call, buckets, candles, table, stream, fpc>>

NextLive ==
  \/ Ingest
  \/ FlushWake
  \/ FlushDrain
  \/ FlushSkip
  \/ FlushOk
  \/ FlushFail
  \/ Stop
  \/ FinalDrain
  \/ FinalFlushOk
  \/ FinalFlushFail

SpecLive == InitLive /\ [][NextLive]_vars

\* ------------------------------------------------------ walk_forward_splits
\* walk_forward_splits of src/scripts/train-core-forecaster.py; the function
\* of the same name in src/scripts/train-final.py has the same statements.
\* Row indices are the Python positions 0..n-1.
MaxN == 12
MaxFolds == 4
MaxGap == 2

\* list(range(a, b))
RangeList(a, b) == [j \in 1..(IF b > a THEN b - a ELSE 0) |-> a + j - 1]

fold_size(n, n_folds) == n \div (n_folds + 1)

split_point(n, n_folds, fold) == fold_size(n, n_folds) * (fold + 1)

val_start_NoEmbargo(n, n_folds, purge, embargo, fold) ==
  split_point(n, n_folds, fold) + purge

val_start(n, n_folds, purge, embargo, fold) ==
  split_point(n, n_folds, fold) + purge + embargo

val_end(n, n_folds, fold) ==
  IF fold < n_folds - 1 THEN fold_size(n, n_folds) * (fold + 2) ELSE n

\* The fold is skipped by the continue statement.
FoldSkipped(n, n_folds, purge, embargo, fold) ==
  \/ val_start(n, n_folds, purge, embargo, fold) >= val_end(n, n_folds, fold)
  \/ val_start(n, n_folds, purge, embargo, fold) >= n

walk_forward_splits(n, n_folds, purge, embargo) ==
  LET folds == [k \in 1..n_folds |-> k - 1]
      kept == SelectSeq(folds,
                LAMBDA fold : ~FoldSkipped(n, n_folds, purge, embargo, fold))
  IN  [j \in 1..Len(kept) |->
         [train_idx |-> RangeList(0, split_point(n, n_folds, kept[j])),
          val_idx |-> RangeList(val_start(n, n_folds, purge, embargo, kept[j]),
                                val_end(n, n_folds, kept[j]))]]

InitSplits ==
  /\ LiveIdle
  /\ PipelineIdle
  /\ pc = "call"
  /\ \E n \in 0..MaxN, n_folds \in 0..MaxFolds, purge \in 0..MaxGap,
        embargo \in 0..MaxGap :
       call = [fn |-> "walk_forward_splits", n |-> n, n_folds |-> n_folds,
               purge |-> purge, embargo |-> embargo]
  /\ result = NoResult

WalkForward ==
  /\ pc = "call"
  /\ call.fn = "walk_forward_splits"
  /\ result' = [fn |-> "walk_forward_splits",
                splits |-> walk_forward_splits(call.n, call.n_folds,
                                               call.purge, call.embargo)]
  /\ pc' = "returned"
  /\ UNCHANGED <<live, pipeline, call>>

NextSplits == WalkForward

SpecSplits == InitSplits /\ [][NextSplits]_vars


\* ================================================================ claims
Triples == 1..(Len(swings) - 2)
SignalIdx == 1..Len(signals)

\* The signal(s) recorded for the triple whose C swing is swings[k + 2].
SignalsOfTriple(k, dir) ==
  { j \in SignalIdx :
      /\ BarOf(signals[j].timestamp) = swings[k + 2].timestamp
      /\ signals[j].direction = dir }

\* The triple a signal came from: C is the swing of the signal's bar whose
\* kind is LOW for a LONG signal and HIGH for a SHORT one.
TripleOfSignal(j) ==
  { k \in Triples :
      /\ swings[k + 2].timestamp = BarOf(signals[j].timestamp)
      /\ swings[k + 2].kind = (IF signals[j].direction = "LONG" THEN "LOW" ELSE "HIGH") }

C1_Bullish(k) ==
  LET a == swings[k]  b == swings[k + 1]  c == swings[k + 2]
  IN  /\ a.kind = "LOW" /\ b.kind = "HIGH" /\ c.kind = "LOW"
      /\ a.price < b.price /\ c.price < b.price /\ c.price > a.price
      /\ 500 * (b.price - a.price) <= 1000 * (b.price - c.price)
      /\ 1000 * (b.price - c.price) <= 618 * (b.price - a.price)

C1_Bearish(k) ==
  LET a == swings[k]  b == swings[k + 1]  c == swings[k + 2]
  IN  /\ a.kind = "HIGH" /\ b.kind = "LOW" /\ c.kind = "HIGH"
      /\ a.price > b.price /\ c.price > b.price /\ c.price < a.price
      /\ 500 * (a.price - b.price) <= 1000 * (c.price - b.price)
      /\ 1000 * (c.price - b.price) <= 618 * (a.price - b.price)

C1_Accepted == { k \in Triples : C1_Bullish(k) \/ C1_Bearish(k) }

C2_RegimeFails(s) ==
  \/ s.direction = "LONG" /\ vix_level > 1800
  \/ s.direction = "SHORT" /\ vix_level < 1600
C2_RewardFails(s) == s.risk_reward_100 < min_rr
C2_VolumeFails(s) == require_volume_confirmation /\ ~s.volume_confirmed

C2_FirstFailing(s) ==
  IF C2_RegimeFails(s) THEN "regime"
  ELSE IF C2_RewardFails(s) THEN "reward"
  ELSE IF C2_VolumeFails(s) THEN "volume"
  ELSE "none"

\* The check a recorded reason names.
ReasonCheck(s) ==
  IF Len(s.filter_reason) = 0 THEN "none"
  ELSE IF s.filter_reason[1] \in {"Filtered long: VIX", "Filtered short: VIX"}
    THEN "regime"
  ELSE IF s.filter_reason[1] \in {"Filtered long: RR100", "Filtered short: RR100"}
    THEN "reward"
  ELSE "volume"

\* C2: enabled and filter_reason of every signal are decided by the first
\* failing check in the order regime, minimum reward, volume (the volume check
\* counting only when require_volume_confirmation is set); the one recorded
\* reason names that check even when later checks fail too.
C2_FirstFailingCheckWins ==
  \A j \in SignalIdx :
    /\ ReasonCheck(signals[j]) = C2_FirstFailing(signals[j])
    /\ signals[j].enabled <=> C2_FirstFailing(signals[j]) = "none"
    /\ ~require_volume_confirmation =>
         (signals[j].enabled <=>
            ~C2_RegimeFails(signals[j]) /\ ~C2_RewardFails(signals[j]))

\* A signal failing all three checks, and one failing the last two.
C2_Witness ==
  /\ \E j \in SignalIdx :
       /\ C2_RegimeFails(signals[j]) /\ C2_RewardFails(signals[j])
       /\ C2_VolumeFails(signals[j])
  /\ min_rr = 1000

\* C3: a disabled signal has a non-empty filter_reason and an enabled signal
\* has the empty string.
C3_ReasonIffDisabled ==
  \A j \in SignalIdx :
    /\ ~signals[j].enabled => Len(signals[j].filter_reason) > 0
    /\ signals[j].enabled => signals[j].filter_reason = << >>

\* A returned list with an enabled and a disabled signal.
C3_Witness ==
  /\ pc = "done"
  /\ \E j \in SignalIdx : signals[j].enabled
  /\ \E j \in SignalIdx : ~signals[j].enabled

\* C4: the regime filter is strict: a LONG signal carries the regime reason
\* iff vix_level > 18.00 and a SHORT signal iff vix_level < 16.00, so 18.00
\* does not disable a LONG and 16.00 does not disable a SHORT through it.
C4_RegimeFilterStrict ==
  \A j \in SignalIdx :
    /\ signals[j].direction = "LONG" =>
         (ReasonCheck(signals[j]) = "regime" <=> vix_level > 1800)
    /\ signals[j].direction = "SHORT" =>
         (ReasonCheck(signals[j]) = "regime" <=> vix_level < 1600)
    /\ ReasonCheck(signals[j]) = "regime" => ~signals[j].enabled

\* An enabled LONG signal at vix_level = 18.00.
C4_Witness ==
  /\ vix_level = 1800
  /\ \E j \in SignalIdx : signals[j].direction = "LONG" /\ signals[j].enabled

\* A signal without its two filter fields.
Frame(s) == [f \in (DOMAIN s) \ {"enabled", "filter_reason"} |-> s[f]]
Frames(sigs) == [j \in 1..Len(sigs) |-> Frame(sigs[j])]

ScenarioSwings ==
  /\ Len(swings) = 3
  /\ swings[1].kind = "LOW" /\ swings[1].price = 10000
  /\ swings[2].kind = "HIGH" /\ swings[2].price = 11000
  /\ swings[3].kind = "LOW" /\ swings[3].price = 10400

\* C5: the number of returned signals and every field of each except enabled
\* and filter_reason are the same for every vix_level, min_rr and
\* require_volume_confirmation on the same candles and swing order; the
\* LOW@100, HIGH@110, LOW@104 pattern at VIX 19 is returned disabled with the
\* reason "VIX 19.00 > 18.00".
C5_FiltersOnlySetFilterFields ==
  pc = "done" =>
    /\ \A v \in VixLevels, m \in MinRRs, r \in BOOLEAN :
         Frames(detect_halsey_signals(df, order, have_scipy, v, m, r, dst_end))
           = Frames(signals)
    /\ (ScenarioSwings /\ vix_level = 1900) =>
         /\ Len(signals) = 1
         /\ ~signals[1].enabled
         /\ signals[1].filter_reason = <<"Filtered long: VIX", 1900, "> 18.00">>

\* The scenario pattern returned at VIX 19.
C5_Witness ==
  /\ pc = "done"
  /\ ScenarioSwings
  /\ vix_level = 1900
  /\ Len(signals) = 1

\* C6: every emitted signal's retrace ratio, taken by its direction's formula
\* on its triple, lies in [0.50, 0.618], and its recorded retrace_pct lies in
\* [50.0, 61.8].
C6_RetraceInBand ==
  \A j \in SignalIdx :
    /\ 5000 <= signals[j].retrace_pct /\ signals[j].retrace_pct <= 6180
    /\ \A k \in TripleOfSignal(j) :
         LET a == swings[k].price  b == swings[k + 1].price  c == swings[k + 2].price
         IN  IF signals[j].direction = "LONG"
               THEN 500 * (b - a) <= 1000 * (b - c) /\ 1000 * (b - c) <= 618 * (b - a)
               ELSE 500 * (a - b) <= 1000 * (c - b) /\ 1000 * (c - b) <= 618 * (a - b)

\* A SHORT signal exactly on the 61.8% edge.
C6_Witness ==
  \E j \in SignalIdx :
    /\ signals[j].direction = "SHORT"
    /\ signals[j].retrace_pct = 6180
    /\ TripleOfSignal(j) # {}

\* The levels the claim states for the triple (A, B, C), rounded to the cent
\* as the Signal records them; risk/reward in hundredths from the unrounded
\* levels.
C7_Levels(dir, a, b, c) ==
  LET impulse == IF dir = "LONG" THEN b - a ELSE a - b
      sgn == IF dir = "LONG" THEN 1 ELSE 0 - 1
      entry == 1000 * c + sgn * 50 * impulse
      stop == 1000 * c - sgn * 50 * impulse
      target_100 == 1000 * c + sgn * 1000 * impulse
      target_1236 == 1000 * c + sgn * 1236 * impulse
  IN  [entry |-> RoundDiv(entry, 1000),
       stop |-> RoundDiv(stop, 1000),
       target_100 |-> RoundDiv(target_100, 1000),
       target_1236 |-> RoundDiv(target_1236, 1000),
       risk_reward_100 |->
         RoundDiv(100 * sgn * (target_100 - entry), sgn * (entry - stop))]

\* C7: with pad = 0.05 x impulse a LONG signal has entry C + pad, stop C - pad,
\* targets C + impulse and C + 1.236 x impulse and rr100 = (target_100 -
\* entry)/(entry - stop), a SHORT signal the mirrored signs; LOW@100, HIGH@110,
\* LOW@104 at VIX 15, min_rr 2.0 and no volume requirement gives one enabled
\* LONG signal with entry 104.5, stop 103.5, targets 114 and 116.36, rr100 9.5.
C7_SignalLevels ==
  /\ \A j \in SignalIdx : \A k \in TripleOfSignal(j) :
       LET lv == C7_Levels(signals[j].direction, swings[k].price,
                           swings[k + 1].price, swings[k + 2].price)
       IN  /\ signals[j].entry = lv.entry
           /\ signals[j].stop = lv.stop
           /\ signals[j].target_100 = lv.target_100
           /\ signals[j].target_1236 = lv.target_1236
           /\ signals[j].risk_reward_100 = lv.risk_reward_100
  /\ (pc = "done" /\ ScenarioSwings /\ vix_level = 1500 /\ min_rr = 200
        /\ ~require_volume_confirmation) =>
       /\ Len(signals) = 1
       /\ signals[1].direction = "LONG"
       /\ signals[1].entry = 10450
       /\ signals[1].stop = 10350
       /\ signals[1].target_100 = 11400
       /\ signals[1].target_1236 = 11636
       /\ signals[1].risk_reward_100 = 950
       /\ signals[1].enabled

\* The scenario run, finished.
C7_Witness ==
  /\ pc = "done"
  /\ ScenarioSwings
  /\ vix_level = 1500 /\ min_rr = 200 /\ ~require_volume_confirmation
  /\ Len(signals) = 1
  /\ TripleOfSignal(1) = {1}

Window(k) == { j \in 1..Len(df) : k - order <= j /\ j <= k + order }

\* C9: on a series of at least 2*order+1 bars, every bar (edge bars included)
\* is reported as a swing high iff its high is the maximum of high over its
\* window, and as a swing low iff its low is the minimum of low over it.
C9_SwingDefinition ==
  (pc # "find_swings" /\ Len(df) >= 2 * order + 1) =>
    \A k \in 1..Len(df) :
      /\ k \in hi_idx <=> \A j \in Window(k) : df[k].high >= df[j].high
      /\ k \in lo_idx <=> \A j \in Window(k) : df[k].low <= df[j].low

\* C10: a series of fewer than 2*order+1 bars (the empty one included) gives
\* empty swing sets, an empty swing table and an empty signal list, and the
\* call returns straight after the table is built.
C10_InsufficientData ==
  Len(df) < 2 * order + 1 =>
    /\ hi_idx = {} /\ lo_idx = {}
    /\ swings = << >>
    /\ signals = << >>
    /\ pc \in {"find_swings", "build_swing_table", "done"}
    /\ pc = "done" =>
         detect_halsey_signals(df, order, have_scipy, vix_level, min_rr,
                               require_volume_confirmation, dst_end) = << >>

\* A returned call on a non-empty series that is too short.
C10_Witness ==
  /\ pc = "done"
  /\ Len(df) = 2 * order
  /\ signals = << >>

\* The positions of the enabled signals of the list passed to
\* summarize_timeframe.
C11_Enabled == { j \in 1..Len(call.signals) : call.signals[j].enabled }
C11_Chosen ==
  IF C11_Enabled # {}
    THEN CHOOSE j \in C11_Enabled : \A k \in C11_Enabled : k <= j
    ELSE Len(call.signals)

\* C11: summarize_timeframe takes the last enabled signal of the list, or the
\* last signal when none is enabled, and reports its direction, entry, stop
\* and target_100 with signal_count the list length and enabled_signal_count
\* the number of enabled signals; the empty list gives NEUTRAL, zero counts and
\* null levels.
C11_LatestIsLastEnabled ==
  Returned("summarize_timeframe") =>
    /\ result.timeframe = call.timeframe
    /\ IF call.signals = << >>
         THEN /\ result.latest_direction = "NEUTRAL"
              /\ result.signal_count = 0
              /\ result.enabled_signal_count = 0
              /\ result.latest_entry = None
              /\ result.latest_stop = None
              /\ result.latest_target_100 = None
         ELSE /\ result.signal_count = Len(call.signals)
              /\ result.enabled_signal_count = Cardinality(C11_Enabled)
              /\ result.latest_direction = call.signals[C11_Chosen].direction
              /\ result.latest_entry = <<call.signals[C11_Chosen].entry>>
              /\ result.latest_stop = <<call.signals[C11_Chosen].stop>>
              /\ result.latest_target_100 = <<call.signals[C11_Chosen].target_100>>

\* A summary whose chosen signal is followed by a disabled signal of the
\* opposite direction.
C11_Witness ==
  /\ Returned("summarize_timeframe")
  /\ C11_Enabled # {}
  /\ C11_Chosen < Len(call.signals)
  /\ call.signals[Len(call.signals)].direction # call.signals[C11_Chosen].direction
  /\ result.latest_direction = call.signals[C11_Chosen].direction

\* The signed weight of one timeframe of the map passed to
\* build_confluence_and_forecast, in tenths.
C12_Signed(tf, w) ==
  IF tf \notin DOMAIN call.summaries THEN 0
  ELSE IF call.summaries[tf].latest_direction = "LONG" THEN w
  ELSE IF call.summaries[tf].latest_direction = "SHORT" THEN 0 - w
  ELSE 0

C12_Example ==
  /\ DOMAIN call.summaries = {"1h", "4h", "1d"}
  /\ call.summaries["1h"].latest_direction = "LONG"
  /\ call.summaries["4h"].latest_direction = "LONG"
  /\ call.summaries["1d"].latest_direction = "NEUTRAL"

\* C12: the returned score is the sum over the present timeframes of the
\* weight (1.0, 1.5, 2.0, 2.5, 3.0) times +1 for LONG, -1 for SHORT and 0 for
\* NEUTRAL; 1h and 4h LONG with 1d NEUTRAL gives 4.5.
C12_ScoreIsWeightedSum ==
  Returned("build_confluence_and_forecast") =>
    /\ result.score = 10 * ( C12_Signed("5m", 10) + C12_Signed("15m", 15)
                             + C12_Signed("1h", 20) + C12_Signed("4h", 25)
                             + C12_Signed("1d", 30) )
    /\ C12_Example => result.score = 450

C12_Witness ==
  /\ Returned("build_confluence_and_forecast")
  /\ C12_Example
  /\ result.score = 450

\* C13: bias is LONG iff score > 1.5, SHORT iff score < -1.5 and NEUTRAL
\* otherwise; a score of exactly 1.5 or -1.5 is NEUTRAL.
C13_BiasThresholdsStrict ==
  Returned("build_confluence_and_forecast") =>
    /\ result.bias = "LONG" <=> result.score > 150
    /\ result.bias = "SHORT" <=> result.score < -150
    /\ result.bias = "NEUTRAL" <=> (result.score >= -150 /\ result.score <= 150)

\* Only the 15m timeframe is directional.
C13_Witness ==
  /\ Returned("build_confluence_and_forecast")
  /\ "15m" \in DOMAIN call.summaries
  /\ call.summaries["15m"].latest_direction = "SHORT"
  /\ \A tf \in DOMAIN call.summaries \ {"15m"} :
       call.summaries[tf].latest_direction = "NEUTRAL"
  /\ result.score = -150
  /\ result.bias = "NEUTRAL"

\* C14: vix >= 20 is HIGH_VOL, 18 <= vix < 20 is ELEVATED, vix < 16 is LOW_VOL
\* and 16 <= vix < 18 is MODERATE; 16.00, 18.00 and 20.00 fall in MODERATE,
\* ELEVATED and HIGH_VOL.
C14_RegimePartition ==
  Returned("build_confluence_and_forecast") =>
    /\ result.vix_regime = "HIGH_VOL" <=> call.vix_level >= 2000
    /\ result.vix_regime = "ELEVATED" <=>
         (call.vix_level >= 1800 /\ call.vix_level < 2000)
    /\ result.vix_regime = "MODERATE" <=>
         (call.vix_level >= 1600 /\ call.vix_level < 1800)
    /\ result.vix_regime = "LOW_VOL" <=> call.vix_level < 1600

C14_Witness ==
  /\ Returned("build_confluence_and_forecast")
  /\ call.vix_level = 1600
  /\ result.vix_regime = "MODERATE"

\* The dampening factor of a regime, in hundredths, and the place of a regime
\* in the order LOW_VOL, MODERATE, ELEVATED, HIGH_VOL.
C15_Factor(regime) ==
  CASE regime = "LOW_VOL" -> 110
    [] regime = "MODERATE" -> 100
    [] regime = "ELEVATED" -> 90
    [] regime = "HIGH_VOL" -> 75

C15_Rank(regime) ==
  CASE regime = "LOW_VOL" -> 1
    [] regime = "MODERATE" -> 2
    [] regime = "ELEVATED" -> 3
    [] regime = "HIGH_VOL" -> 4

C15_Width(res, h) ==
  res.forecast_ranges_pct[h][2] - res.forecast_ranges_pct[h][1]

\* A call of build_confluence_and_forecast returns while the caller still holds
\* the result of the previous call.
C15_ReturnsAfterEarlier ==
  /\ pc = "call"
  /\ pc' = "returned"
  /\ call.fn = "build_confluence_and_forecast"
  /\ result # NoResult

\* C15 as stated: every returned bound is exactly the base bound times the
\* regime factor (compared in thousandths of a percent).
C15_ExactProduct ==
  Returned("build_confluence_and_forecast") =>
    \A h \in Horizons : \A k \in {1, 2} :
      10 * result.forecast_ranges_pct[h][k]
        = Ranges(result.bias)[h][k] * C15_Factor(result.vix_regime)

\* C15, amended: every returned bound is the base bound times the regime
\* factor rounded to two decimals (half to even); for a fixed bias the band
\* width does not grow as the regime goes LOW_VOL, MODERATE, ELEVATED,
\* HIGH_VOL; LONG bias at VIX 22 gives the 1-week band (0.6, 2.1).
C15_RoundedDampening ==
  [][ /\ (pc = "call" /\ pc' = "returned"
            /\ call.fn = "build_confluence_and_forecast") =>
          /\ \A h \in Horizons : \A k \in {1, 2} :
               result'.forecast_ranges_pct[h][k]
                 = RoundDiv(Ranges(result'.bias)[h][k]
                              * C15_Factor(result'.vix_regime), 10)
          /\ (result'.bias = "LONG" /\ call.vix_level = 2200) =>
               result'.forecast_ranges_pct["1_week"] = <<60, 210>>
      /\ (/\ C15_ReturnsAfterEarlier
          /\ result'.bias = result.bias
          /\ C15_Rank(result'.vix_regime) >= C15_Rank(result.vix_regime)) =>
          \A h \in Horizons : C15_Width(result', h) <= C15_Width(result, h)
    ]_vars

\* The 1_quarter band under HIGH_VOL: 4.5 x 0.75 = 3.375 is returned as 3.38.
C15_Witness ==
  /\ Returned("build_confluence_and_forecast")
  /\ result.bias = "LONG"
  /\ result.vix_regime = "HIGH_VOL"
  /\ result.forecast_ranges_pct["1_quarter"] = <<338, 900>>
  /\ result.forecast_ranges_pct["1_week"] = <<60, 210>>

C16_Mirror(band) == << 0 - band[2], 0 - band[1] >>

\* C16: all four horizons are returned; in every band lo <= hi; the LONG band
\* is strictly positive, the SHORT band strictly negative, the NEUTRAL band
\* symmetric about zero; and under one regime the SHORT band is the mirror of
\* the LONG band.
C16_BandShape ==
  [][ /\ (pc = "call" /\ pc' = "returned"
            /\ call.fn = "build_confluence_and_forecast") =>
          /\ DOMAIN result'.forecast_ranges_pct = Horizons
          /\ \A h \in Horizons :
               LET band == result'.forecast_ranges_pct[h]
               IN  /\ band[1] <= band[2]
                   /\ result'.bias = "LONG" => band[1] > 0
                   /\ result'.bias = "SHORT" => band[2] < 0
                   /\ result'.bias = "NEUTRAL" => band = C16_Mirror(band)
      /\ (/\ C15_ReturnsAfterEarlier
          /\ result'.vix_regime = result.vix_regime
          /\ {result.bias, result'.bias} = {"LONG", "SHORT"}) =>
          \A h \in Horizons :
            result'.forecast_ranges_pct[h] = C16_Mirror(result.forecast_ranges_pct[h])
    ]_vars

\* A SHORT band under HIGH_VOL, the mirror of the LONG band (3.38, 9.0).
C16_Witness ==
  /\ Returned("build_confluence_and_forecast")
  /\ result.bias = "SHORT"
  /\ result.vix_regime = "HIGH_VOL"
  /\ result.forecast_ranges_pct["1_quarter"] = <<-900, -338>>

C18_Trailing(n) == SumVolume(call.df, call.idx - n + 1, call.idx)

\* C18: for a bar with 20 bars at or before it, volume_confirmed is true iff
\* the mean volume of the trailing 20 bars ending at the bar is positive and
\* the mean volume of the 3 bars ending at the bar is at least 0.9 times it.
C18_TwentyBarBaseline ==
  (Returned("_volume_confirmed") /\ call.idx >= 20) =>
    ( result <=> ( /\ C18_Trailing(20) > 0
                   /\ C18_Trailing(3) * 20 * 10 >= C18_Trailing(20) * 9 * 3 ) )

\* The risk of a signal built on coarse prices, where the recorded entry and
\* stop are the unrounded ones.
C20_Risk(s) ==
  IF s.direction = "LONG" THEN s.entry - s.stop ELSE s.stop - s.entry

C20_RegimeDisables(s) ==
  IF s.direction = "LONG" THEN call.vix_level > 1800 ELSE call.vix_level < 1600

C20_Degenerate ==
  /\ Returned("triple")
  /\ Len(result) = 1
  /\ C20_Risk(result[1]) <= 0

\* C20: an accepted pattern whose risk is not positive is built without error,
\* has risk_reward_100 = risk_reward_1236 = 0 and is disabled, by the
\* minimum-reward filter unless the regime filter already disabled it, for
\* min_rr 0.5, 2.0 and 20.
C20_DegenerateDisabled ==
  C20_Degenerate =>
    LET s == result[1]
    IN  /\ s.risk_reward_100 = 0
        /\ s.risk_reward_1236 = 0
        /\ ~s.enabled
        /\ IF C20_RegimeDisables(s)
             THEN s.filter_reason[2] = call.vix_level
             ELSE /\ Len(s.filter_reason) = 4
                  /\ s.filter_reason[2] = 0
                  /\ s.filter_reason[3] = "<"
                  /\ s.filter_reason[4] = call.min_rr

\* A LONG signal with entry = stop that passes the regime filter and is
\* disabled by the minimum-reward filter at min_rr = 0.5.
C20_Witness ==
  /\ C20_Degenerate
  /\ result[1].direction = "LONG"
  /\ call.vix_level = 1500
  /\ call.min_rr = 50
  /\ result[1].risk_reward_100 = 0
  /\ ~result[1].enabled

\* The raw series of the call is malformed: empty, lacking a required column,
\* or with timestamps that do not increase.
C21_Malformed ==
  \/ call.rows = << >>
  \/ Required \ call.columns # {}
  \/ \E j \in 1..(Len(call.rows) - 1) : call.rows[j].ts >= call.rows[j + 1].ts

\* C21: a malformed candle series (empty, a missing OHLCV column, or
\* non-monotonic timestamps) makes the call fail with an error; it is never
\* repaired and returned.
C21_MalformedFailsFast ==
  (Returned("fetch_mes_databento") /\ C21_Malformed) => result.raised

\* C22: swing detection runs only under a configuration in range (swing order
\* 2..20, min_rr 0.5..20), whichever way the engine was entered.
C22_ValidatedAtEntry ==
  pc \in {"find_swings", "build_swing_table", "scan", "done"} =>
    /\ call.swing_order >= 2 /\ call.swing_order <= 20
    /\ call.min_rr >= 50 /\ call.min_rr <= 2000

\* C23: build_confluence_and_forecast is invoked only once a snapshot exists
\* for each of 5m, 15m, 1h, 4h, 1d; the map it receives has exactly these
\* keys, a timeframe without signals being NEUTRAL; every timeframe and the
\* confluence step use the one volatility reading fetched at the start.
C23_FanIn ==
  (pc \in {"loop", "returned"} /\ call.fn = "run_multi_timeframe_analysis") =>
    /\ \A tf \in DOMAIN result.vix_passed :
         result.vix_passed[tf] = call.vix_feed[1]
    /\ result.confluence # None =>
         /\ DOMAIN result.summaries = {"5m", "15m", "1h", "4h", "1d"}
         /\ DOMAIN result.vix_passed = {"5m", "15m", "1h", "4h", "1d"}
         /\ \A tf \in DOMAIN result.summaries :
              /\ result.summaries[tf].timeframe = tf
              /\ call.signals_by_tf[tf] = << >> =>
                   result.summaries[tf].latest_direction = "NEUTRAL"
         /\ result.confluence[1].vix_level = call.vix_feed[1]

\* A finished run in which 5m has no signals and 1d has one.
C23_Witness ==
  /\ Returned("run_multi_timeframe_analysis")
  /\ result.confluence # None
  /\ call.signals_by_tf["5m"] = << >>
  /\ call.signals_by_tf["1d"] # << >>
  /\ result.summaries["5m"].latest_direction = "NEUTRAL"
  /\ result.summaries["1d"].latest_direction # "NEUTRAL"

\* The bucket starts of a dictionary and the largest of them.
C24_Keys(b) == DOMAIN b
C24_Latest(b) == CHOOSE k \in DOMAIN b : \A j \in DOMAIN b : j <= k

\* drain returned the list r from the dictionary b and left the dictionary b2.
C24_DrainContract(b, r, b2) ==
  /\ Len(r) = Cardinality(C24_Keys(b))
  /\ \A n \in 1..Len(r) :
       /\ r[n].time \in C24_Keys(b)
       /\ r[n].open = b[r[n].time].open
       /\ r[n].high = b[r[n].time].high
       /\ r[n].low = b[r[n].time].low
       /\ r[n].close = b[r[n].time].close
       /\ r[n].volume = b[r[n].time].volume
  /\ \A n \in 1..(Len(r) - 1) : r[n].time < r[n + 1].time
  /\ Cardinality(C24_Keys(b2)) <= 1
  /\ IF C24_Keys(b) = {} THEN r = << >> /\ C24_Keys(b2) = {}
     ELSE /\ C24_Keys(b2) = {C24_Latest(b)}
          /\ b2[C24_Latest(b)] = b[C24_Latest(b)]

\* C24: drain returns every bucket held, in ascending bucket-start order, and
\* leaves only the latest one; on an empty aggregator it returns an empty
\* list.
C24_DrainKeepsLatest ==
  [][ /\ (fpc = "awake" /\ fpc' = "drained") =>
           C24_DrainContract(buckets, candles', buckets')
      /\ (pc = "stopping" /\ pc' = "final_drained") =>
           C24_DrainContract(buckets, final_candles', buckets')
    ]_vars

\* After a drain by the flush thread that found two buckets, the later one is
\* still held.
C24_Witness ==
  /\ fpc = "drained"
  /\ Len(candles) = 2
  /\ candles[1].time = 0
  /\ candles[2].time = 900
  /\ DOMAIN buckets = {900}

\* The valid records delivered so far for the bucket starting at k, in order
\* of arrival.
C30_IsFor(k) == [n \in 1..Len(stream) |->
                   RecordValid(stream[n]) /\ BucketOf(stream[n].ts) = k]

C30_Positions(k) == { n \in 1..Len(stream) : C30_IsFor(k)[n] }

RECURSIVE C30_SumVolume(_)
C30_SumVolume(ps) ==
  IF ps = {} THEN 0
  ELSE LET n == CHOOSE x \in ps : TRUE
       IN  stream[n].volume + C30_SumVolume(ps \ {n})

\* The row aggregates every record of positions ps.
C30_Aggregates(row, ps) ==
  LET first == CHOOSE n \in ps : \A m \in ps : n <= m
      last == CHOOSE n \in ps : \A m \in ps : m <= n
  IN  /\ row.open = stream[first].open
      /\ row.close = stream[last].close
      /\ \A n \in ps : row.high >= stream[n].high /\ row.low <= stream[n].low
      /\ \E n \in ps : row.high = stream[n].high
      /\ \E n \in ps : row.low = stream[n].low
      /\ row.volume = C30_SumVolume(ps)

\* main has completed its final flush without error and the flush thread
\* holds no candles.
C30_Quiescent ==
  /\ call.fn = "main"
  /\ pc = "finalized"
  /\ result = [status |-> "COMPLETED"]
  /\ fpc \in {"sleep", "exited"}

\* C30: once the stream is stopped and the final flush is done, the row last
\* upserted for a 15-minute bucket aggregates every valid 1-minute record
\* ingested for that bucket, under every interleaving of ingest with drain and
\* flush_candles.
C30_NothingLost ==
  C30_Quiescent =>
    \A k \in DOMAIN table :
      /\ C30_Positions(k) # {}
      /\ C30_Aggregates(table[k], C30_Positions(k))

C25_Splits == result.splits

\* The values of a list of indices.
C25_Set(idx) == { idx[j] : j \in 1..Len(idx) }

\* The pair is train = [0, split_point) and val = [split_point + purge +
\* embargo, next_split) of some fold, the last fold's window ending at n.
C25_IsFold(pair, fold) ==
  LET fs == call.n \div (call.n_folds + 1)
      sp == fs * (fold + 1)
      nx == IF fold = call.n_folds - 1 THEN call.n ELSE fs * (fold + 2)
  IN  /\ C25_Set(pair.train_idx) = { t \in 0..call.n : t < sp }
      /\ C25_Set(pair.val_idx) =
           { v \in 0..call.n : sp + call.purge + call.embargo <= v /\ v < nx }

\* C25: every (train, val) pair returned by walk_forward_splits is train =
\* [0, split_point) and val = [split_point + purge + embargo, next_split) of
\* one fold; every validation index exceeds every training index of its fold
\* by more than purge + embargo; every validation window is non-empty and
\* within [0, n); the validation windows of different folds are disjoint.
C25_AntiLeakage ==
  Returned("walk_forward_splits") =>
    /\ \A j \in 1..Len(C25_Splits) :
         LET pair == C25_Splits[j]
         IN  /\ \E fold \in 0..(call.n_folds - 1) : C25_IsFold(pair, fold)
             /\ \A t \in C25_Set(pair.train_idx), v \in C25_Set(pair.val_idx) :
                  v - t > call.purge + call.embargo
             /\ pair.val_idx # << >>
             /\ C25_Set(pair.val_idx) \subseteq 0..(call.n - 1)
    /\ \A j, k \in 1..Len(C25_Splits) :
         j # k => C25_Set(C25_Splits[j].val_idx)
                    \cap C25_Set(C25_Splits[k].val_idx) = {}

\* Three folds are returned with a gap of two rows, each with a training
\* window and a validation window.
C25_Witness ==
  /\ Returned("walk_forward_splits")
  /\ call.purge = 1
  /\ call.embargo = 1
  /\ Len(C25_Splits) = 3
  /\ \A j \in 1..3 : C25_Splits[j].train_idx # << >>

C26_Risk(s) ==
  IF s.direction = "LONG" THEN s.entry - s.stop ELSE s.stop - s.entry

C26_RegimeDisables(s) ==
  IF s.direction = "LONG" THEN call.vix_level > 1800 ELSE call.vix_level < 1600

\* The signal carries the reason of the minimum-reward filter.
C26_RewardDisables(s) == ~s.enabled /\ Len(s.filter_reason) = 4

\* C26: for every emitted Signal the risk entry - stop (stop - entry for a
\* SHORT) is 0.10 x impulse and positive, risk_reward_100 is 9.5 and
\* risk_reward_1236 is 11.86 whatever the prices, and a signal the regime
\* filter lets through is disabled by the minimum-reward filter if and only if
\* min_rr > 9.5.
C26_ConstantRewardRatio ==
  (Returned("triple") /\ Len(result) = 1) =>
    LET s == result[1]
    IN  /\ 10 * C26_Risk(s) = s.impulse_points
        /\ C26_Risk(s) > 0
        /\ s.risk_reward_100 = 950
        /\ s.risk_reward_1236 = 1186
        /\ ~C26_RegimeDisables(s) =>
             (C26_RewardDisables(s) <=> call.min_rr > 950)

\* C27: the levels of every emitted signal are strictly ordered: for LONG,
\* A.price < stop < C.price < entry < B.price < target_100 < target_1236; for
\* SHORT the same chain with > throughout.
C27_LevelOrdering ==
  (Returned("triple") /\ Len(result) = 1) =>
    LET s == result[1]
        a == call.a.price
        b == call.b.price
        c == call.c.price
    IN  IF s.direction = "LONG"
          THEN /\ a < s.stop /\ s.stop < c /\ c < s.entry /\ s.entry < b
               /\ b < s.target_100 /\ s.target_100 < s.target_1236
          ELSE /\ a > s.stop /\ s.stop > c /\ c > s.entry /\ s.entry > b
               /\ b > s.target_100 /\ s.target_100 > s.target_1236

C28_AllDisabled(sigs) ==
  sigs # << >> /\ \A j \in 1..Len(sigs) : ~sigs[j].enabled

\* What the timeframe adds to the score, in tenths, when its snapshot carries
\* the direction dir.
C28_Signed(dir, w) ==
  IF dir = "LONG" THEN w ELSE IF dir = "SHORT" THEN 0 - w ELSE 0

\* The direction a timeframe of the run feeds into the score: that of the last
\* signal of an all-disabled list.
C28_Direction(tf) ==
  LET sigs == call.signals_by_tf[tf]
  IN  IF C28_AllDisabled(sigs) THEN sigs[Len(sigs)].direction
      ELSE result.summaries[tf].latest_direction

\* C28: every snapshot built by summarize_timeframe has 0 <=
\* enabled_signal_count <= signal_count, and latest_direction = NEUTRAL iff
\* signal_count = 0 iff latest_entry, latest_stop and latest_target_100 are all
\* null; a timeframe whose signals are all disabled reports the direction of
\* its last signal, and that direction adds plus or minus the timeframe's
\* weight to the confluence score.
C28_SnapshotInvariant ==
  (pc \in {"loop", "returned"} /\ call.fn = "run_multi_timeframe_analysis") =>
    /\ \A tf \in DOMAIN result.summaries :
         LET snap == result.summaries[tf]
             sigs == call.signals_by_tf[tf]
         IN  /\ 0 <= snap.enabled_signal_count
             /\ snap.enabled_signal_count <= snap.signal_count
             /\ snap.latest_direction = "NEUTRAL" <=> snap.signal_count = 0
             /\ snap.signal_count = 0 <=>
                  /\ snap.latest_entry = None
                  /\ snap.latest_stop = None
                  /\ snap.latest_target_100 = None
             /\ C28_AllDisabled(sigs) =>
                  /\ snap.enabled_signal_count = 0
                  /\ snap.signal_count = Len(sigs)
                  /\ snap.latest_direction = sigs[Len(sigs)].direction
    /\ result.confluence # None =>
         result.confluence[1].score =
           10 * ( C28_Signed(C28_Direction("5m"), 10)
                  + C28_Signed(C28_Direction("15m"), 15)
                  + C28_Signed(C28_Direction("1h"), 20)
                  + C28_Signed(C28_Direction("4h"), 25)
                  + C28_Signed(C28_Direction("1d"), 30) )

\* A finished run in which only 1d has signals, a disabled LONG followed by a
\* disabled SHORT: the snapshot is SHORT and the score is -3.0.
C28_Witness ==
  /\ Returned("run_multi_timeframe_analysis")
  /\ result.confluence # None
  /\ \A tf \in {"5m", "15m", "1h", "4h"} : call.signals_by_tf[tf] = << >>
  /\ Len(call.signals_by_tf["1d"]) = 2
  /\ C28_AllDisabled(call.signals_by_tf["1d"])
  /\ call.signals_by_tf["1d"][1].direction = "LONG"
  /\ result.summaries["1d"].latest_direction = "SHORT"
  /\ result.summaries["1d"].enabled_signal_count = 0
  /\ result.summaries["1d"].signal_count = 2
  /\ result.confluence[1].score = -300

\* C29: the scipy path and the rolling-window fallback of find_swings return
\* the same swing-high indices and the same swing-low indices for every series
\* and order, bars within order of either end included: the sets the run
\* computed on its path are those the other path gives.
C29_PathsEquivalent ==
  pc # "find_swings" =>
    /\ hi_idx = find_swings(df, order, ~have_scipy).hi
    /\ lo_idx = find_swings(df, order, ~have_scipy).lo

====
